---- MODULE Spec2Model ----
(***************************************************************************)
(* Model of klave-secure-rooms:                                            *)
(*   - the client RPC wrapper (waitForConnection and the per-operation     *)
(*     request/onResult/onError/send promise adapters),                    *)
(*   - the UserRequests ledger collection,                                 *)
(*   - the Keys ledger object.                                             *)
(* The three parts share no state; each has its own specification.         *)
(***************************************************************************)
EXTENDS Integers, Sequences, FiniteSets, TLC

VARIABLES
    \* ---- client RPC wrapper ----
    connected,      \* secretariumHandler.isConnected()
    pc,             \* per call: position in the promise chain
    op,             \* per call: the wrapper that was invoked
    polled,         \* per call: the values of isConnected its polls have read
    timerArmed,     \* per call: a setTimeout(loopCondition, 1000) is outstanding
    req,            \* per call: the request issued (contract, method, tag)
    trace,          \* per call: the calls made on the handler / transaction, in order
    promise,        \* per call: the promise returned to the caller
    sendRejected,   \* per call: tx.send()'s own promise has rejected
    lastEv,         \* per call: the last callback the transaction delivered
    \* ---- UserRequests ledger collection ----
    urTable,        \* row "ALL" of UserRequestsTable (serialized; empty when absent)
    children,       \* the UserRequest child records, by id
    nextId,         \* the next id the UserRequest constructor hands out
    ur,             \* userRequests of the in-memory UserRequests object
    urLast,         \* the last UserRequests operation: arguments, result, output,
                    \* and the collection it was called on
    \* ---- Keys ledger object ----
    keysTable,      \* row "ALL" of KeysTable (serialized; empty when absent)
    keyStore,       \* names of the keys held by the SDK's key store
    keys,           \* the in-memory Keys object
    kLast           \* the last Keys operation: result, output, SDK calls

clientVars == <<connected, pc, op, polled, timerArmed, req, trace, promise,
                sendRejected, lastEv>>

urVars == <<urTable, children, nextId, ur, urLast>>

keysVars == <<keysTable, keyStore, keys, kLast>>

vars == <<clientVars, urVars, keysVars>>

----------------------------------------------------------------------------
(* Client RPC wrapper                                                      *)

\* Call slots (each call creates its own promise and closures).
Calls == {"c1", "c2"}

\* One call on its own, and the wrappers used when two calls run at once.
OneCall == {"c1"}
ConcOps == {"createUser", "listDataRooms"}

\* Payloads a transaction may deliver to onResult, errors to onError / send().
Payloads == {"p1", "p2"}
Errors == {"e1", "e2"}

\* Values Math.random() contributes to a request tag.
Rand == {1, 2}

klaveContract == "VITE_APP_KLAVE_CONTRACT"
mock_web_server_klave_contract == "test_sdk_smart_contract"

\* wrapper |-> <<contract, remote method, tag prefix>>
OpTable ==
    [ createSuperAdmin |-> <<klaveContract, "createSuperAdmin", "createSuperAdmin">>,
      createUser |-> <<klaveContract, "createUserRequest", "createUser">>,
      getUser |-> <<klaveContract, "getUserContent", "getUser">>,
      listUsers |-> <<klaveContract, "listUserRequests", "listUsers">>,
      approveUser |-> <<klaveContract, "approveUserRequest", "approveUser">>,
      resetIdentities |-> <<klaveContract, "resetIdentities", "resetIdentities">>,
      exportStorageServerPrivateKey |->
          <<klaveContract, "exportStorageServerPrivateKey", "exportStorageServerPrivateKey">>,
      setTokenIdentity |-> <<klaveContract, "setTokenIdentity", "setTokenIdentity">>,
      createDataRoom |-> <<klaveContract, "createDataRoom", "createDataRoom">>,
      updateDataRoom |-> <<klaveContract, "updateDataRoom", "updateDataRoom">>,
      getPublicKeys |-> <<klaveContract, "getPublicKeys", "getPublicKeys">>,
      getFileUploadToken |-> <<klaveContract, "getFileUploadToken", "getFileUploadToken">>,
      listDataRooms |-> <<klaveContract, "listDataRooms", "listDataRooms">>,
      getDataRoomContent |-> <<klaveContract, "getDataRoomContent", "getDataRoomContent">>,
      setStorageServerTokenIdentity |->
          <<mock_web_server_klave_contract, "importKey", "importKey">>,
      getPublicKey |-> <<mock_web_server_klave_contract, "getPublicKey", "getPublicKey">>,
      importPublicKey |-> <<mock_web_server_klave_contract, "importKey", "importKey">>,
      sign |-> <<mock_web_server_klave_contract, "sign", "sign">>,
      verify |-> <<mock_web_server_klave_contract, "verify", "verify">> ]

\* Every exported wrapper.
Ops == DOMAIN OpTable

NoReq == [contract |-> "", method |-> "", tag |-> <<"", 0>>]
NoEv == [kind |-> "none", val |-> "none"]
Pending == [state |-> "pending", value |-> "none"]

\* resolve(v) of a promise: the first settlement wins, later ones are ignored.
Resolve(pr, v) ==
    IF pr.state = "pending" THEN [state |-> "resolved", value |-> v] ELSE pr

\* reject(e) of a promise.
Reject(pr, e) ==
    IF pr.state = "pending" THEN [state |-> "rejected", value |-> e] ELSE pr

\* Mutant: the result handler overwrites an outcome that is already settled.
OnResultHandler_Overwrite(pr, result) == [state |-> "resolved", value |-> result]

\* Mutant: the result handler never calls resolve.
OnResultHandler_NoResolve(pr, result) == pr

\* tx.onResult((result) => { resolve(result); })
OnResultHandler(pr, result) == Resolve(pr, result)

\* Mutant: the error handler calls resolve instead of reject.
OnErrorHandler_Resolves(pr, error) == Resolve(pr, error)

\* tx.onError((error) => { reject(error); })
OnErrorHandler(pr, error) == Reject(pr, error)

\* tx.send().catch(reject)
SendCatch(pr, error) == Reject(pr, error)

\* Mutant: a failed poll does not schedule the next one.
LoopCondition_NoReschedule(isConn) ==
    IF isConn THEN <<isConn, TRUE, FALSE>> ELSE <<isConn, FALSE, FALSE>>

\* loopCondition: read the flag; resolve when true, else re-arm the timer.
\* Returns <<value read, resolved, timer armed>>.
LoopCondition(isConn) ==
    IF isConn THEN <<isConn, TRUE, FALSE>> ELSE <<isConn, FALSE, TRUE>>

\* Mutant: send is triggered before the handlers are registered.
ExecutorSteps_SendFirst == <<"send", "onResult", "onError">>

\* The order in which the promise executor touches the transaction.
ExecutorSteps == <<"onResult", "onError", "send">>

RunLoop(c) ==
    LET r == LoopCondition(connected) IN
    /\ polled' = [polled EXCEPT ![c] = @ \cup {r[1]}]
    /\ timerArmed' = [timerArmed EXCEPT ![c] = r[3]]
    /\ pc' = [pc EXCEPT ![c] = IF r[2] THEN "ready" ELSE "waiting"]

\* A caller invokes wrapper o: waitForConnection() runs loopCondition once,
\* synchronously.
Call(c, o) ==
    /\ pc[c] = "idle"
    /\ op' = [op EXCEPT ![c] = o]
    /\ RunLoop(c)
    /\ UNCHANGED <<connected, req, trace, promise, sendRejected, lastEv,
                 urVars, keysVars>>

\* The 1000 ms timer fires loopCondition again.
PollTimer(c) ==
    /\ pc[c] = "waiting"
    /\ timerArmed[c]
    /\ RunLoop(c)
    /\ UNCHANGED <<connected, op, req, trace, promise, sendRejected, lastEv,
                 urVars, keysVars>>

\* .then(() => secretariumHandler.request(contract, method, input, tag))
Request(c, rnd) ==
    /\ pc[c] = "ready"
    /\ req' = [req EXCEPT ![c] = [contract |-> OpTable[op[c]][1],
                                  method |-> OpTable[op[c]][2],
                                  tag |-> <<OpTable[op[c]][3], rnd>>]]
    /\ trace' = [trace EXCEPT ![c] = Append(@, "request")]
    /\ pc' = [pc EXCEPT ![c] = "requested"]
    /\ UNCHANGED <<connected, op, polled, timerArmed, promise, sendRejected, lastEv,
                 urVars, keysVars>>

\* .then((tx) => new Promise((resolve, reject) => { ... }))
Executor(c) ==
    /\ pc[c] = "requested"
    /\ trace' = [trace EXCEPT ![c] = @ \o ExecutorSteps]
    /\ pc' = [pc EXCEPT ![c] = "sent"]
    /\ UNCHANGED <<connected, op, polled, timerArmed, req, promise, sendRejected, lastEv,
                 urVars, keysVars>>

Registered(c) == \E i \in 1..Len(trace[c]) : trace[c][i] = "onResult"
RegisteredErr(c) == \E i \in 1..Len(trace[c]) : trace[c][i] = "onError"
Sent(c) == \E i \in 1..Len(trace[c]) : trace[c][i] = "send"

\* Mutant: the calls share one resolve function, so a result settles every
\* call's promise.
DeliverResult_Shared(c, p) ==
    /\ pc[c] = "sent"
    /\ Registered(c)
    /\ promise' = [d \in Calls |-> OnResultHandler(promise[d], p)]
    /\ lastEv' = [lastEv EXCEPT ![c] = [kind |-> "result", val |-> p]]
    /\ UNCHANGED <<connected, pc, op, polled, timerArmed, req, trace, sendRejected,
                 urVars, keysVars>>

\* The transaction invokes the registered result handler with payload p.
DeliverResult(c, p) ==
    /\ pc[c] = "sent"
    /\ Registered(c)
    /\ promise' = [promise EXCEPT ![c] = OnResultHandler(@, p)]
    /\ lastEv' = [lastEv EXCEPT ![c] = [kind |-> "result", val |-> p]]
    /\ UNCHANGED <<connected, pc, op, polled, timerArmed, req, trace, sendRejected,
                 urVars, keysVars>>

\* The transaction invokes the registered error handler with error e.
DeliverError(c, e) ==
    /\ pc[c] = "sent"
    /\ RegisteredErr(c)
    /\ promise' = [promise EXCEPT ![c] = OnErrorHandler(@, e)]
    /\ lastEv' = [lastEv EXCEPT ![c] = [kind |-> "error", val |-> e]]
    /\ UNCHANGED <<connected, pc, op, polled, timerArmed, req, trace, sendRejected,
                 urVars, keysVars>>

\* The promise returned by tx.send() rejects with e (at most once).
SendReject(c, e) ==
    /\ pc[c] = "sent"
    /\ Sent(c)
    /\ ~sendRejected[c]
    /\ sendRejected' = [sendRejected EXCEPT ![c] = TRUE]
    /\ promise' = [promise EXCEPT ![c] = SendCatch(@, e)]
    /\ lastEv' = [lastEv EXCEPT ![c] = [kind |-> "sendfail", val |-> e]]
    /\ UNCHANGED <<connected, pc, op, polled, timerArmed, req, trace,
                 urVars, keysVars>>

\* The connection is established / lost (outside the wrapper's control).
Connect ==
    /\ ~connected
    /\ connected' = TRUE
    /\ UNCHANGED <<pc, op, polled, timerArmed, req, trace, promise, sendRejected, lastEv,
                 urVars, keysVars>>

Disconnect ==
    /\ connected
    /\ connected' = FALSE
    /\ UNCHANGED <<pc, op, polled, timerArmed, req, trace, promise, sendRejected, lastEv,
                 urVars, keysVars>>

ClientInit ==
    /\ connected = FALSE
    /\ pc = [c \in Calls |-> "idle"]
    /\ op = [c \in Calls |-> "none"]
    /\ polled = [c \in Calls |-> {}]
    /\ timerArmed = [c \in Calls |-> FALSE]
    /\ req = [c \in Calls |-> NoReq]
    /\ trace = [c \in Calls |-> <<>>]
    /\ promise = [c \in Calls |-> Pending]
    /\ sendRejected = [c \in Calls |-> FALSE]
    /\ lastEv = [c \in Calls |-> NoEv]

\* The steps of the calls in CS, each invoking a wrapper of OS.
ClientNext(CS, OS) ==
    \/ \E c \in CS, o \in OS : Call(c, o)
    \/ \E c \in CS : PollTimer(c)
    \/ \E c \in CS, rnd \in Rand : Request(c, rnd)
    \/ \E c \in CS : Executor(c)
    \/ \E c \in CS, p \in Payloads : DeliverResult(c, p)
    \/ \E c \in CS, e \in Errors : DeliverError(c, e)
    \/ \E c \in CS, e \in Errors : SendReject(c, e)
    \/ Connect
    \/ Disconnect

----------------------------------------------------------------------------
(* UserRequests ledger collection                                          *)

\* Number of UserRequest ids the model hands out.
MaxIds == 3

\* The ids the UserRequest constructor generates, in the order handed out.
IdPool == <<"u1", "u2", "u3", "u4", "u5", "u6">>

UserIds == {IdPool[i] : i \in 1..MaxIds}

DataRoomIds == {"r1"}
Roles == {"viewer", "admin"}

\* JSON.stringify<UserRequests>(this): {"userRequests":[id,id,...]} as tokens.
RECURSIVE JoinIds(_)
JoinIds(ids) ==
    IF Len(ids) = 0 THEN <<>>
    ELSE IF Len(ids) = 1 THEN <<ids[1]>>
    ELSE <<ids[1], ",">> \o JoinIds(Tail(ids))

StringifyUserRequests(ids) ==
    <<"{", "userRequests", ":", "[">> \o JoinIds(ids) \o <<"]", "}">>

\* JSON.parse<UserRequests>(row): read the array elements up to the "]".
RECURSIVE ParseIds(_, _)
ParseIds(toks, i) ==
    IF i > Len(toks) \/ toks[i] = "]" THEN <<>>
    ELSE IF toks[i] = "," THEN ParseIds(toks, i + 1)
    ELSE <<toks[i]>> \o ParseIds(toks, i + 1)

ParseUserRequests(toks) ==
    IF Len(toks) >= 4 /\ toks[2] = "userRequests" /\ toks[4] = "["
    THEN ParseIds(toks, 5)
    ELSE <<>>

\* Mutant: the emptiness test of load is inverted.
UserRequestsLoad_Inverted(row) ==
    IF Len(row) # 0 THEN <<>> ELSE ParseUserRequests(row)

\* UserRequests.load(): read-or-default.
UserRequestsLoad(row) ==
    IF Len(row) = 0 THEN <<>> ELSE ParseUserRequests(row)

\* UserRequests.save(): the row written.
UserRequestsSave(ids) == StringifyUserRequests(ids)

\* UserRequest.load(id): the child record, or none.
UserRequestExists(kids, id) == id \in DOMAIN kids

\* userRequest.save()
UserRequestSave(kids, rec) ==
    [i \in DOMAIN kids \cup {rec.id} |-> IF i = rec.id THEN rec ELSE kids[i]]

\* userRequest.delete()
UserRequestDelete(kids, id) == [i \in DOMAIN kids \ {id} |-> kids[i]]

\* Array#indexOf: 0-based index of the first occurrence, -1 when absent.
IndexOf(s, x) ==
    IF \E i \in 1..Len(s) : s[i] = x
    THEN (CHOOSE i \in 1..Len(s) : s[i] = x /\ \A j \in 1..(i - 1) : s[j] # x) - 1
    ELSE -1

Max(a, b) == IF a > b THEN a ELSE b
Min(a, b) == IF a < b THEN a ELSE b

\* Array#splice(start, deleteCount): a negative start counts from the end.
Splice(s, start, deleteCount) ==
    LET len == Len(s)
        st == IF start < 0 THEN Max(len + start, 0) ELSE Min(start, len)
        dc == Max(Min(deleteCount, len - st), 0)
    IN  SubSeq(s, 1, st) \o SubSeq(s, st + dc + 1, len)

NoOut == [success |-> <<>>, error |-> <<>>, notify |-> <<>>]

\* Mutant: the new id is not pushed onto the sequence.
AddUserRequest_NoPush(ids, kids, id, dataRoomId, role) ==
    LET userRequest == [id |-> id, dataRoomId |-> dataRoomId, role |-> role] IN
    <<ids,
      UserRequestSave(kids, userRequest),
      [NoOut EXCEPT !.success = <<<<"UserRequest added successfully: ", userRequest.id>>>>],
      TRUE>>

\* addUserRequest: <<ids, child store, output, return value>>
AddUserRequest(ids, kids, id, dataRoomId, role) ==
    LET userRequest == [id |-> id, dataRoomId |-> dataRoomId, role |-> role] IN
    <<Append(ids, userRequest.id),
      UserRequestSave(kids, userRequest),
      [NoOut EXCEPT !.success = <<<<"UserRequest added successfully: ", userRequest.id>>>>],
      TRUE>>

\* userRequest.id as read after userRequest.delete(): delete either leaves
\* the record's id field as it was or blanks it.
UserRequestIdAfterDelete(id, blankIdOnDelete) ==
    IF blankIdOnDelete THEN "" ELSE id

\* Mutant: the lookup result is not checked before the removal.
RemoveUserRequest_NoCheck(ids, kids, userId, blankIdOnDelete) ==
    LET index == IndexOf(ids, UserRequestIdAfterDelete(userId, blankIdOnDelete)) IN
    <<Splice(ids, index, 1), UserRequestDelete(kids, userId), NoOut, TRUE>>

\* removeUserRequest: <<ids, child store, output, return value>>.  The index
\* is looked up with userRequest.id, read after userRequest.delete().
RemoveUserRequest(ids, kids, userId, blankIdOnDelete) ==
    IF ~UserRequestExists(kids, userId)
    THEN <<ids, kids,
           [NoOut EXCEPT !.error = <<<<"UserRequest not found: ", userId>>>>],
           FALSE>>
    ELSE LET index == IndexOf(ids, UserRequestIdAfterDelete(userId, blankIdOnDelete)) IN
         <<Splice(ids, index, 1), UserRequestDelete(kids, userId), NoOut, TRUE>>

\* list: the output emitted.
ListUserRequests(ids) ==
    [success |-> IF Len(ids) = 0
                 THEN <<<<"No userRequest found in the list of userRequests", "">>>>
                 ELSE <<>>,
     error |-> <<>>,
     notify |-> <<ids>>]

\* delete: the child store after the cascade.
RECURSIVE DeleteChildren(_, _, _)
DeleteChildren(ids, kids, i) ==
    IF i > Len(ids) THEN kids
    ELSE DeleteChildren(ids,
                        IF UserRequestExists(kids, ids[i])
                        THEN UserRequestDelete(kids, ids[i]) ELSE kids,
                        i + 1)

\* Mutant: delete clears and saves the sequence without the cascade.
DeleteUserRequests_NoCascade(ids, kids) ==
    LET cleared == <<>> IN
    <<cleared, kids, UserRequestsSave(cleared)>>

\* delete: <<ids, child store, row written>>
DeleteUserRequests(ids, kids) ==
    LET cleared == <<>> IN
    <<cleared, DeleteChildren(ids, kids, 1), UserRequestsSave(cleared)>>

\* pre and kids are the id sequence and the ids with a child record when the
\* operation was called.
URLast(o, arg, ret, out) ==
    [op |-> o, arg |-> arg, ret |-> ret, out |-> out,
     pre |-> ur, kids |-> DOMAIN children]

URLoad ==
    /\ ur' = UserRequestsLoad(urTable)
    /\ urLast' = URLast("load", "", TRUE, NoOut)
    /\ UNCHANGED <<urTable, children, nextId, clientVars, keysVars>>

URSave ==
    /\ urTable' = UserRequestsSave(ur)
    /\ urLast' = URLast("save", "", TRUE, NoOut)
    /\ UNCHANGED <<children, nextId, ur, clientVars, keysVars>>

URAdd(dataRoomId, role) ==
    /\ nextId <= MaxIds
    /\ LET r == AddUserRequest(ur, children, IdPool[nextId], dataRoomId, role) IN
       /\ ur' = r[1]
       /\ children' = r[2]
       /\ urLast' = URLast("add", IdPool[nextId], r[4], r[3])
    /\ nextId' = nextId + 1
    /\ UNCHANGED <<urTable, clientVars, keysVars>>

URRemove(userId) ==
    /\ \E blankIdOnDelete \in BOOLEAN :
       LET r == RemoveUserRequest(ur, children, userId, blankIdOnDelete) IN
       /\ ur' = r[1]
       /\ children' = r[2]
       /\ urLast' = URLast("remove", userId, r[4], r[3])
    /\ UNCHANGED <<urTable, nextId, clientVars, keysVars>>

URList ==
    /\ urLast' = URLast("list", "", TRUE, ListUserRequests(ur))
    /\ UNCHANGED <<urTable, children, nextId, ur, clientVars, keysVars>>

URDelete ==
    /\ LET r == DeleteUserRequests(ur, children) IN
       /\ ur' = r[1]
       /\ children' = r[2]
       /\ urTable' = r[3]
    /\ urLast' = URLast("delete", "", TRUE, NoOut)
    /\ UNCHANGED <<nextId, clientVars, keysVars>>

URInit ==
    /\ urTable = <<>>
    /\ children = [i \in {} |-> [id |-> "", dataRoomId |-> "", role |-> ""]]
    /\ nextId = 1
    /\ ur = <<>>
    /\ urLast = URLast("new", "", TRUE, NoOut)

URNext ==
    \/ URLoad
    \/ URSave
    \/ \E d \in DataRoomIds, r \in Roles : URAdd(d, r)
    \/ \E id \in UserIds : URRemove(id)
    \/ URList
    \/ URDelete

----------------------------------------------------------------------------
(* Keys ledger object                                                      *)

\* Names the key store gives the keys it generates.
KeyNames == {"k1", "k2"}

\* The format argument of exportStorageServerPrivateKey ("" = omitted).
Formats == {"", "raw", "pkcs8"}

NewKeys == [klaveServer_private_key |-> "", storageServer_private_key |-> ""]

\* JSON.stringify<Keys>(this), as tokens.
StringifyKeys(k) ==
    <<"{", "klaveServer_private_key", ":", k.klaveServer_private_key, ",",
      "storageServer_private_key", ":", k.storageServer_private_key, "}">>

\* JSON.parse<Keys>(row)
ParseKeys(toks) ==
    IF Len(toks) = 9 /\ toks[2] = "klaveServer_private_key"
                     /\ toks[6] = "storageServer_private_key"
    THEN [klaveServer_private_key |-> toks[4], storageServer_private_key |-> toks[8]]
    ELSE NewKeys

\* Keys.load(): read-or-default.
KeysLoad(row) == IF Len(row) = 0 THEN NewKeys ELSE ParseKeys(row)

\* Keys.save(): the row written.
KeysSave(k) == StringifyKeys(k)

\* Mutant: isSet tests the two fields with && instead of ||.
IsSet_And(k) ==
    IF k.klaveServer_private_key = "" /\ k.storageServer_private_key = ""
    THEN FALSE ELSE TRUE

\* Keys.isSet()
IsSet(k) ==
    IF k.klaveServer_private_key = "" \/ k.storageServer_private_key = ""
    THEN FALSE ELSE TRUE

\* Keys.clearKeys(): <<keys, output, return value>>
ClearKeys(k) ==
    <<[klaveServer_private_key |-> "", storageServer_private_key |-> ""],
      [NoOut EXCEPT !.success =
          <<<<"Both klaveServer and storageServer keys now removed successfully", "">>>>],
      TRUE>>

\* generateKlaveServerPrivateKey; made is the name of the key the SDK
\* generated, "" when it returned null: <<keys, output, return value, SDK calls>>
GenerateKlaveServerPrivateKey(k, made) ==
    LET calls == <<<<"ECDSA.generateKey", k.klaveServer_private_key>>>> IN
    IF made = ""
    THEN <<k, [NoOut EXCEPT !.success =
                  <<<<"KlaveServer private key could not be created.", "">>>>],
           FALSE, calls>>
    ELSE <<[k EXCEPT !.klaveServer_private_key = made], NoOut, TRUE, calls>>

\* generateStorageServerPrivateKey
GenerateStorageServerPrivateKey(k, made) ==
    LET calls == <<<<"ECDSA.generateKey", k.storageServer_private_key>>>> IN
    IF made = ""
    THEN <<k, [NoOut EXCEPT !.success =
                  <<<<"KlaveServer private key could not be created.", "">>>>],
           FALSE, calls>>
    ELSE <<[k EXCEPT !.storageServer_private_key = made], NoOut, TRUE, calls>>

\* Mutant: the export does not test for an empty reference first.
ExportStorageServerPrivateKey_NoGuard(k, format, got, loaded, exported) ==
    LET name == k.storageServer_private_key
        fmt == IF format = "" THEN "raw" ELSE format
        c1 == <<<<"ECDSA.getKey", name>>>>
        c2 == Append(c1, <<"SubtleCrypto.loadKey", name>>)
        c3 == Append(c2, <<"SubtleCrypto.exportKey", fmt>>)
    IN  IF ~got
        THEN <<[NoOut EXCEPT !.error = <<<<"Issue retrieving the key: ", name>>>>],
               FALSE, c1>>
        ELSE IF ~loaded
        THEN <<[NoOut EXCEPT !.error = <<<<"Issue loading the key: ", name>>>>],
               FALSE, c2>>
        ELSE IF ~exported
        THEN <<[NoOut EXCEPT !.error = <<<<"Issue exporting the key: ", name>>>>],
               FALSE, c3>>
        ELSE <<[NoOut EXCEPT !.success = <<<<fmt, name>>>>], TRUE, c3>>

\* exportStorageServerPrivateKey(format = 'raw'); got, loaded, exported say
\* whether ECDSA.getKey, SubtleCrypto.loadKey and SubtleCrypto.exportKey return
\* a value: <<output, return value, SDK calls>>
ExportStorageServerPrivateKey(k, format, got, loaded, exported) ==
    LET name == k.storageServer_private_key
        fmt == IF format = "" THEN "raw" ELSE format
        c1 == <<<<"ECDSA.getKey", name>>>>
        c2 == Append(c1, <<"SubtleCrypto.loadKey", name>>)
        c3 == Append(c2, <<"SubtleCrypto.exportKey", fmt>>)
    IN  IF name = ""
        THEN <<[NoOut EXCEPT !.error =
                  <<<<"Storage server private key does not exist.", "">>>>],
               FALSE, <<>>>>
        ELSE IF ~got
        THEN <<[NoOut EXCEPT !.error = <<<<"Issue retrieving the key: ", name>>>>],
               FALSE, c1>>
        ELSE IF ~loaded
        THEN <<[NoOut EXCEPT !.error = <<<<"Issue loading the key: ", name>>>>],
               FALSE, c2>>
        ELSE IF ~exported
        THEN <<[NoOut EXCEPT !.error = <<<<"Issue exporting the key: ", name>>>>],
               FALSE, c3>>
        ELSE <<[NoOut EXCEPT !.success = <<<<fmt, name>>>>], TRUE, c3>>

\* Mutant: the "no keys" test of list uses || instead of &&.
ListKeys_Or(k, got1, got2) ==
    LET kn == k.klaveServer_private_key
        sn == k.storageServer_private_key
        c1 == <<<<"ECDSA.getKey", kn>>>>
        c2 == Append(c1, <<"ECDSA.getKey", sn>>)
    IN  IF kn = "" \/ sn = ""
        THEN <<[NoOut EXCEPT !.success = <<<<"No keys have been set yet.", "">>>>],
               <<>>>>
        ELSE IF ~got1
        THEN <<[NoOut EXCEPT !.error = <<<<"Issue retrieving the key: ", kn>>>>], c1>>
        ELSE IF ~got2
        THEN <<[NoOut EXCEPT !.error = <<<<"Issue retrieving the key: ", sn>>>>], c2>>
        ELSE <<[NoOut EXCEPT !.notify = <<<<kn, sn>>>>], c2>>

\* Keys.list(); got1, got2 say whether ECDSA.getKey returns each key:
\* <<output, SDK calls>>
ListKeys(k, got1, got2) ==
    LET kn == k.klaveServer_private_key
        sn == k.storageServer_private_key
        c1 == <<<<"ECDSA.getKey", kn>>>>
        c2 == Append(c1, <<"ECDSA.getKey", sn>>)
    IN  IF kn = "" /\ sn = ""
        THEN <<[NoOut EXCEPT !.success = <<<<"No keys have been set yet.", "">>>>],
               <<>>>>
        ELSE IF ~got1
        THEN <<[NoOut EXCEPT !.error = <<<<"Issue retrieving the key: ", kn>>>>], c1>>
        ELSE IF ~got2
        THEN <<[NoOut EXCEPT !.error = <<<<"Issue retrieving the key: ", sn>>>>], c2>>
        ELSE <<[NoOut EXCEPT !.notify = <<<<kn, sn>>>>], c2>>

KLast(o, ret, out, calls) == [op |-> o, ret |-> ret, out |-> out, calls |-> calls]

KLoad ==
    /\ keys' = KeysLoad(keysTable)
    /\ kLast' = KLast("load", TRUE, NoOut, <<>>)
    /\ UNCHANGED <<keysTable, keyStore, clientVars, urVars>>

KSave ==
    /\ keysTable' = KeysSave(keys)
    /\ kLast' = KLast("save", TRUE, NoOut, <<>>)
    /\ UNCHANGED <<keyStore, keys, clientVars, urVars>>

\* made: "" when Crypto.ECDSA.generateKey returns null, else the key's name.
KGenerateKlave(made) ==
    /\ LET r == GenerateKlaveServerPrivateKey(keys, made) IN
       /\ keys' = r[1]
       /\ kLast' = KLast("generateKlave", r[3], r[2], r[4])
    /\ keyStore' = IF made = "" THEN keyStore ELSE keyStore \cup {made}
    /\ UNCHANGED <<keysTable, clientVars, urVars>>

KGenerateStorage(made) ==
    /\ LET r == GenerateStorageServerPrivateKey(keys, made) IN
       /\ keys' = r[1]
       /\ kLast' = KLast("generateStorage", r[3], r[2], r[4])
    /\ keyStore' = IF made = "" THEN keyStore ELSE keyStore \cup {made}
    /\ UNCHANGED <<keysTable, clientVars, urVars>>

\* The SDK finds a key only if the store holds it; any SDK call may fail.
KExport(format, got, loaded, exported) ==
    /\ got => keys.storageServer_private_key \in keyStore
    /\ LET r == ExportStorageServerPrivateKey(keys, format, got, loaded, exported) IN
       kLast' = KLast("export", r[2], r[1], r[3])
    /\ UNCHANGED <<keysTable, keyStore, keys, clientVars, urVars>>

KClear ==
    /\ LET r == ClearKeys(keys) IN
       /\ keys' = r[1]
       /\ kLast' = KLast("clearKeys", r[3], r[2], <<>>)
    /\ UNCHANGED <<keysTable, keyStore, clientVars, urVars>>

KList(got1, got2) ==
    /\ got1 => keys.klaveServer_private_key \in keyStore
    /\ got2 => keys.storageServer_private_key \in keyStore
    /\ LET r == ListKeys(keys, got1, got2) IN
       kLast' = KLast("list", TRUE, r[1], r[2])
    /\ UNCHANGED <<keysTable, keyStore, keys, clientVars, urVars>>

KIsSet ==
    /\ kLast' = KLast("isSet", IsSet(keys), NoOut, <<>>)
    /\ UNCHANGED <<keysTable, keyStore, keys, clientVars, urVars>>

KInit ==
    /\ keysTable = <<>>
    /\ keyStore = {}
    /\ keys = NewKeys
    /\ kLast = KLast("new", TRUE, NoOut, <<>>)

KNext ==
    \/ KLoad
    \/ KSave
    \/ \E made \in KeyNames \cup {""} : KGenerateKlave(made)
    \/ \E made \in KeyNames \cup {""} : KGenerateStorage(made)
    \/ \E f \in Formats, g \in BOOLEAN, l \in BOOLEAN, x \in BOOLEAN : KExport(f, g, l, x)
    \/ KClear
    \/ \E g1 \in BOOLEAN, g2 \in BOOLEAN : KList(g1, g2)
    \/ KIsSet

----------------------------------------------------------------------------
(* Specifications                                                          *)

Init == ClientInit /\ URInit /\ KInit

\* One client call, any wrapper.
Next == ClientNext(OneCall, Ops)

Spec == Init /\ [][Next]_vars

\* The timer the wrapper arms always fires: setTimeout callbacks are run.
LiveSpec == Spec /\ \A c \in OneCall : WF_vars(PollTimer(c))

\* Two client calls at once.
ConcNext == ClientNext(Calls, ConcOps)

ConcSpec == Init /\ [][ConcNext]_vars

\* The UserRequests collection.
URSpec == Init /\ [][URNext]_vars

\* The Keys object.
KeysSpec == Init /\ [][KNext]_vars

----------------------------------------------------------------------------
(* Properties                                                              *)

Range(s) == {s[i] : i \in 1..Len(s)}

IsPrefix(s, t) == Len(s) <= Len(t) /\ SubSeq(t, 1, Len(s)) = s

Resolved(v) == [state |-> "resolved", value |-> v]
Rejected(e) == [state |-> "rejected", value |-> e]

\* A step in which call c's transaction delivers a callback of kind k with v.
Delivers(c, k, v) ==
    /\ lastEv'[c] # lastEv[c]
    /\ lastEv'[c] = [kind |-> k, val |-> v]

\* C1: for every wrapper, when the success callback fires with payload p while
\* the promise is still unsettled, the promise resolves with exactly p.
C1_ResolvesWithPayload ==
    [][\A c \in Calls, p \in Payloads :
          (Delivers(c, "result", p) /\ promise[c].state = "pending")
              => promise'[c] = Resolved(p)]_vars

\* C1 witness: listUsers waited for the connection and resolved with the
\* payload its result callback delivered.
C1_Witness ==
    \E c \in Calls :
        /\ op[c] = "listUsers"
        /\ polled[c] = {FALSE, TRUE}
        /\ lastEv[c] = [kind |-> "result", val |-> "p2"]
        /\ promise[c] = Resolved("p2")

\* C2 as stated: whenever the error callback fires with e, or send() rejects
\* with e, the promise is rejected with e.
C2_Original ==
    \A c \in Calls :
        lastEv[c].kind \in {"error", "sendfail"}
            => promise[c] = Rejected(lastEv[c].val)

\* C2 amended: when the error callback fires with e, or send() rejects with e,
\* while the promise is still unsettled, the promise rejects with e; when it
\* is already settled its outcome is unchanged; it is never left pending.
C2_RejectsWhenUnsettled ==
    [][\A c \in Calls, e \in Errors :
          (Delivers(c, "error", e) \/ Delivers(c, "sendfail", e))
              => /\ promise[c].state = "pending" => promise'[c] = Rejected(e)
                 /\ promise[c].state # "pending" => promise'[c] = promise[c]
                 /\ promise'[c].state # "pending"]_vars

\* C2 witness: verify was rejected with the error its error callback delivered.
C2_Witness ==
    \E c \in Calls :
        /\ op[c] = "verify"
        /\ lastEv[c] = [kind |-> "error", val |-> "e2"]
        /\ ~sendRejected[c]
        /\ promise[c] = Rejected("e2")

\* C3: within a call, a poll observes the flag true, then the request is
\* issued, then onResult and onError are registered, then send is triggered;
\* nothing is requested or sent unless a poll has observed the flag true.
C3_StepOrder ==
    \A c \in Calls :
        /\ IsPrefix(trace[c], <<"request", "onResult", "onError", "send">>)
        /\ (trace[c] # <<>> \/ req[c] # NoReq \/ pc[c] \in {"ready", "requested", "sent"})
              => TRUE \in polled[c]
        /\ req[c] # NoReq <=> "request" \in Range(trace[c])
        /\ pc[c] = "sent" <=> "send" \in Range(trace[c])

\* C3 witness: a call that first polled false went through all four steps.
C3_Witness ==
    \E c \in Calls :
        /\ op[c] = "approveUser"
        /\ FALSE \in polled[c]
        /\ trace[c] = <<"request", "onResult", "onError", "send">>

\* C4: if the flag becomes true and stays true, a waiting call's
\* waitForConnection eventually resolves; every failed poll re-arms the timer;
\* while the flag has never been true, every call stays pending.
C4_ConnectionGate ==
    /\ \A c \in OneCall :
          (<>[]connected) => ((pc[c] = "waiting") ~> (pc[c] = "ready"))
    /\ [](\A c \in Calls : (pc[c] = "waiting") => timerArmed[c])
    /\ ([](~connected)) =>
          [](\A c \in Calls : pc[c] \in {"idle", "waiting"} /\ promise[c] = Pending)

\* C4 witness: waitForConnection resolved after at least one failed poll.
C4_Witness ==
    \E c \in OneCall :
        /\ FALSE \in polled[c]
        /\ pc[c] = "ready"
        /\ ~timerArmed[c]

\* C5: load of an absent row gives the empty sequence; load after save gives
\* the saved sequence; the row a save writes is the row a second save writes.
C5_LoadSaveRoundTrip ==
    [][/\ (urLast'.op = "load" /\ Len(urTable) = 0) => ur' = <<>>
       /\ (urLast.op = "save" /\ urLast'.op = "load") => ur' = ur
       /\ urLast'.op = "save" =>
             /\ UserRequestsLoad(urTable') = ur
             /\ UserRequestsSave(UserRequestsLoad(urTable')) = urTable'
             /\ ur' = ur]_vars

\* C5 witness: a load returned a saved sequence of two ids.
C5_Witness ==
    /\ urLast.op = "load"
    /\ Len(ur) = 2
    /\ Len(urTable) > 0
    /\ UserRequestsLoad(urTable) = ur

\* C6: removeUserRequest of an id with no child record returns false and
\* changes neither the id sequence nor the child store.
C6_RemoveUnknown ==
    [][\A id \in UserIds :
          (urLast'.op = "remove" /\ urLast'.arg = id /\ ~UserRequestExists(children, id))
              => /\ urLast'.ret = FALSE
                 /\ ur' = ur
                 /\ children' = children]_vars

\* C6 witness: a removal of an id that is in the sequence, but has no child
\* record, returned false and left the sequence as it was.
C6_Witness ==
    /\ urLast.op = "remove"
    /\ urLast.ret = FALSE
    /\ urLast.arg \in Range(ur)
    /\ ~UserRequestExists(children, urLast.arg)
    /\ Len(ur) >= 2

BothSet(k) == k.klaveServer_private_key # "" /\ k.storageServer_private_key # ""

\* C7: isSet returns true iff both references are non-empty, in every state;
\* right after clearKeys it returns false.
C7_IsSet ==
    /\ [](IsSet(keys) <=> BothSet(keys))
    /\ []((kLast.op = "isSet") => (kLast.ret <=> BothSet(keys)))
    /\ []((kLast.op = "clearKeys") => ~IsSet(keys))
    /\ [][(kLast.op = "clearKeys" /\ kLast'.op = "isSet") => kLast'.ret = FALSE]_vars

\* C7 witness: isSet returned false with exactly one reference set, after
\* the object was saved.
C7_Witness ==
    /\ kLast.op = "isSet"
    /\ kLast.ret = FALSE
    /\ keys.klaveServer_private_key # ""
    /\ keys.storageServer_private_key = ""
    /\ Len(keysTable) > 0

\* C8: with an empty storage-server reference, exportStorageServerPrivateKey
\* returns false, emits nothing on the result channel and calls no SDK
\* function.
C8_ExportWithoutKey ==
    (kLast.op = "export" /\ keys.storageServer_private_key = "")
        => /\ kLast.ret = FALSE
           /\ kLast.out.success = <<>>
           /\ kLast.out.notify = <<>>
           /\ kLast.calls = <<>>

\* C8 witness: an export was refused while only the klave-server key exists.
C8_Witness ==
    /\ kLast.op = "export"
    /\ keys.storageServer_private_key = ""
    /\ keys.klaveServer_private_key # ""
    /\ kLast.ret = FALSE
    /\ kLast.out.error # <<>>

\* C9: addUserRequest persists the new child record and appends its id to
\* the sequence, leaving the earlier ids as they were; list on the
\* collection, and a load after a save, give a sequence holding the new id.
C9_AddAppends ==
    [][/\ urLast'.op = "add" =>
             LET id == urLast'.arg IN
             /\ UserRequestExists(children', id)
             /\ children'[id].id = id
             /\ \A i \in DOMAIN children : children'[i] = children[i]
             /\ ur' = Append(ur, id)
             /\ id \in Range(ListUserRequests(ur').notify[1])
             /\ id \in Range(UserRequestsLoad(UserRequestsSave(ur')))
       /\ (urLast.op = "add" /\ urLast'.op = "list") =>
             urLast.arg \in Range(urLast'.out.notify[1])
       /\ (urLast.op = "add" /\ urLast'.op = "save") =>
             urLast.arg \in Range(UserRequestsLoad(urTable'))]_vars

\* C9 witness: an add on a collection that already held an id.
C9_Witness ==
    /\ urLast.op = "add"
    /\ Len(ur) >= 2
    /\ ur[Len(ur)] = urLast.arg
    /\ UserRequestExists(children, urLast.arg)

\* C10 as stated: list emits either the id sequence (collection non-empty) or
\* the "no requests" message and not the id sequence (collection empty).
C10_ListEmitsOneThing ==
    (urLast.op = "list") =>
        IF Len(ur) = 0
        THEN Len(urLast.out.success) = 1 /\ urLast.out.notify = <<>>
        ELSE urLast.out.success = <<>> /\ urLast.out.notify = <<ur>>

NoneSet(k) == k.klaveServer_private_key = "" /\ k.storageServer_private_key = ""

NoKeysMessage == <<<<"No keys have been set yet.", "">>>>

\* C11 as stated: list emits the "no keys" message exactly when both
\* references are unset, and otherwise (also with exactly one reference set)
\* emits both public keys as one structured result, not an error.
C11_Original ==
    (kLast.op = "list") =>
        IF NoneSet(keys)
        THEN kLast.out.success = NoKeysMessage /\ kLast.out.notify = <<>>
        ELSE /\ kLast.out.success = <<>>
             /\ kLast.out.error = <<>>
             /\ kLast.out.notify =
                   <<<<keys.klaveServer_private_key, keys.storageServer_private_key>>>>

\* C11 amended: list emits the "no keys" message exactly when both references
\* are unset, and then looks nothing up; otherwise it emits either one
\* structured result holding both keys, after both lookups, or one error
\* naming the reference whose lookup failed; a structured result is emitted
\* only when both references are set, and with exactly one set an error is.
C11_ListKeys ==
    (kLast.op = "list") =>
        /\ (kLast.out.success = NoKeysMessage) <=> NoneSet(keys)
        /\ NoneSet(keys) =>
              kLast.out.notify = <<>> /\ kLast.out.error = <<>> /\ kLast.calls = <<>>
        /\ ~NoneSet(keys) =>
              /\ kLast.out.success = <<>>
              /\ \/ /\ kLast.out.error = <<>>
                    /\ kLast.out.notify =
                          <<<<keys.klaveServer_private_key,
                              keys.storageServer_private_key>>>>
                    /\ Len(kLast.calls) = 2
                 \/ /\ kLast.out.notify = <<>>
                    /\ Len(kLast.out.error) = 1
                    /\ kLast.out.error[1][2] \in
                          {keys.klaveServer_private_key, keys.storageServer_private_key}
        /\ kLast.out.notify # <<>> => BothSet(keys)
        /\ (~NoneSet(keys) /\ ~BothSet(keys)) =>
              Len(kLast.out.error) = 1 /\ kLast.out.notify = <<>>

\* C11 witness: list with only the storage-server reference set reported the
\* failed lookup of the empty klave-server reference.
C11_Witness ==
    /\ kLast.op = "list"
    /\ keys.klaveServer_private_key = ""
    /\ keys.storageServer_private_key # ""
    /\ kLast.out.error = <<<<"Issue retrieving the key: ", "">>>>
    /\ kLast.out.notify = <<>>

\* C12: right after delete, no id of the sequence it was called on has a child
\* record, the in-memory sequence is empty, and load returns an empty
\* sequence.
C12_DeleteCascades ==
    /\ []((urLast.op = "delete") =>
            /\ \A id \in Range(urLast.pre) : ~UserRequestExists(children, id)
            /\ DOMAIN children = urLast.kids \ Range(urLast.pre)
            /\ ur = <<>>
            /\ Len(urTable) > 0
            /\ UserRequestsLoad(urTable) = <<>>)
    /\ [][(urLast.op = "delete" /\ urLast'.op = "load") => ur' = <<>>]_vars

\* C12 witness: delete ran on a sequence of two ids, one with a child record
\* and one whose child record was already gone.
C12_Witness ==
    /\ urLast.op = "delete"
    /\ Len(urLast.pre) = 2
    /\ \E a, b \in Range(urLast.pre) : a \in urLast.kids /\ b \notin urLast.kids
    /\ ur = <<>>

\* The sequence s without the id x.
Without(s, x) == SelectSeq(s, LAMBDA y : y # x)

\* C13 as stated: when removeUserRequest(id) finds the child record of id, it
\* deletes that child and removes id, and only id, from the sequence; the
\* other ids stay, in order, also when id is not in the sequence.
C13_RemoveOnlyThatId ==
    (urLast.op = "remove" /\ urLast.arg \in urLast.kids) =>
        /\ urLast.ret = TRUE
        /\ DOMAIN children = urLast.kids \ {urLast.arg}
        /\ ur = Without(urLast.pre, urLast.arg)

\* C14: with two calls in flight, a callback delivered to one call's
\* transaction changes nothing of the other call, and a call's promise changes
\* only in a step that delivers a callback to that call.
C14_CallsIsolated ==
    [][/\ \A c \in Calls : \A d \in Calls \ {c} :
             (lastEv'[c] # lastEv[c]) =>
                 /\ promise'[d] = promise[d]
                 /\ lastEv'[d] = lastEv[d]
                 /\ sendRejected'[d] = sendRejected[d]
                 /\ pc'[d] = pc[d]
       /\ \A d \in Calls :
             (promise'[d] # promise[d]) => (lastEv'[d] # lastEv[d])]_vars

\* C14 witness: two calls in flight at once settled differently, createUser
\* resolved by its result and listDataRooms rejected by its error.
C14_Witness ==
    /\ op["c1"] = "createUser"
    /\ op["c2"] = "listDataRooms"
    /\ promise["c1"] = Resolved("p1")
    /\ lastEv["c1"] = [kind |-> "result", val |-> "p1"]
    /\ promise["c2"] = Rejected("e2")
    /\ lastEv["c2"] = [kind |-> "error", val |-> "e2"]

\* C15: a call's promise settles at most once: the first result, error or
\* send failure fixes the outcome, and nothing delivered later changes it.
C15_SettlesOnce ==
    [][\A c \in Calls :
          /\ (promise[c].state # "pending") => (promise'[c] = promise[c])
          /\ (promise[c].state = "pending" /\ lastEv'[c] # lastEv[c]) =>
                promise'[c] = [state |-> IF lastEv'[c].kind = "result"
                                         THEN "resolved" ELSE "rejected",
                               value |-> lastEv'[c].val]]_vars

\* C15 witness: a promise rejected by the error callback kept that outcome
\* after a send failure and a later result on the same transaction.
C15_Witness ==
    \E c \in Calls :
        /\ op[c] = "exportStorageServerPrivateKey"
        /\ promise[c] = Rejected("e1")
        /\ sendRejected[c]
        /\ lastEv[c] = [kind |-> "result", val |-> "p2"]

====
